---------------------------- MODULE Spec2Model ----------------------------
(***************************************************************************)
(* Model of src/cache_bus.h (namespace Cached): the cached input wrapper   *)
(* InputRead with its two kinds Digital and Analog, the homogeneous bus    *)
(* Bus<T, N> and the heterogeneous bus VBus<T...>.                         *)
(*                                                                         *)
(* One behaviour is one program that constructs one bus (either class,     *)
(* any modelled shape) and then calls its public operations in any order.  *)
(* Every operation is synchronous, so each is one atomic action.           *)
(*                                                                         *)
(* The caller follows the control cycle of the design: in each cycle it    *)
(* triggers one sampling operation and then serves any number of reads     *)
(* from the cache; the next cycle starts with the next trigger.  A cycle   *)
(* may serve no read at all, so every sequence of sampling operations is   *)
(* exercised.                                                              *)
(*                                                                         *)
(* Values.  int is modelled by an integer.  float is modelled in fixed     *)
(* point, in hundredths: 0.42 is 42 and 1.0 is 100.  The conversions       *)
(* between the two are modelled by what C++ does (truncation towards zero *)
(* from float to int, exact from int to float).                            *)
(*                                                                         *)
(* Positions are 0-based as in the source.  Position lists, traces and     *)
(* records are TLA+ sequences, hence 1-based: field j of a C++ tuple is    *)
(* element j + 1 of the sequence that models it.                           *)
(***************************************************************************)
EXTENDS Integers, Sequences, FiniteSets, TLC

(***************************************************************************)
(* Bounds of the model.                                                    *)
(***************************************************************************)
\* Largest bus width (template parameter N of Bus, sizeof...(T) of VBus).
MaxWidth == 3
\* Longest position list given to a multi-position read.
MaxList == 2

(***************************************************************************)
(* Kinds and values.                                                       *)
(***************************************************************************)
Kind == {"Digital", "Analog"}

\* One float unit (1.0) in the fixed-point representation of float.
FloatOne == 10 * 10

\* Raw values DigitalIn::read() and AnalogIn::read() can hand back.
RawVals(k) == IF k = "Digital" THEN {0, 1} ELSE {0, 42}

AllRaw == UNION {RawVals(k) : k \in Kind}

\* `Data data;` is never initialised by InputRead(In&): after construction
\* it holds an indeterminate value.  The set holds the value type's zero and
\* a non-zero value.
Indeterminate(k) == IF k = "Digital" THEN {0, 1} ELSE {0, 42}

\* assoc_data_type<Digital>::type = int, assoc_data_type<Analog>::type =
\* float: the value type of a kind.
assoc_data_type(k) == IF k = "Digital" THEN "int" ELSE "float"

\* Implicit conversion of a value of the value type of kind `from` on
\* assignment to a tuple field of the value type of kind `to`.
Convert(v, from, to) ==
  IF assoc_data_type(from) = assoc_data_type(to) THEN v
  ELSE IF assoc_data_type(from) = "int" THEN v * FloatOne
  ELSE v \div FloatOne

\* Value-initialisation of a value type (what std::tuple's default
\* constructor does to each field): zero for int and for float.
ValueInit(k) == IF assoc_data_type(k) = "int" THEN 0 ELSE 0 * FloatOne

\* size_t arithmetic: I - 1u wraps around at zero.
SizeMod == 2 ^ 16
SizeSub1(I) == (I - 1) % SizeMod

\* Sequences over S of length lo..hi.
Lists(S, lo, hi) == UNION {[1..n -> S] : n \in lo..hi}

(***************************************************************************)
(* State.                                                                  *)
(***************************************************************************)
VARIABLES
  cls,      \* "Bus" or "VBus": the class of the constructed bus
  kinds,    \* the kind of every position, a function on 0..width-1
  data,     \* InputRead::data of every position
  sampled,  \* history: whether read() was ever called on the position
  lastRet,  \* history: the value the latest read() of the position returned
  last      \* the operation performed last, with what it did and returned

vars == <<cls, kinds, data, sampled, lastRet, last>>

Width == Cardinality(DOMAIN kinds)
Pos == DOMAIN kinds

\* The record `last` of an operation.
\*   op     name of the operation
\*   ids    positions named by the caller, in call order
\*   inv    the inverse_read argument
\*   trace  the hardware samples taken, in order: position, flag passed to
\*          InputRead::read, raw value of the line, value returned
\*   rec    the value(s) returned to the caller (a tuple, or one value)
\*   oob    positions outside the bus the operation accessed, in order
\*   err    whether OUT_OF_BOUNDS_ERROR was raised
\*   fault  whether the program was ended by the out-of-bounds access
NoOp == [op |-> "construct", ids |-> <<>>, inv |-> FALSE, trace |-> <<>>,
         rec |-> <<>>, oob |-> <<>>, err |-> FALSE, fault |-> FALSE]

(***************************************************************************)
(* InputRead, Digital, Analog.                                             *)
(***************************************************************************)
\* Inversion of a raw value: Digital flips the bit, Analog ignores the flag.
Invert(k, raw, inverse_read) ==
  IF k = "Digital" /\ inverse_read THEN 1 - raw ELSE raw

\* The running state of one operation: the members it may change plus what
\* it has done so far (ret: the value the latest InputRead::read returned;
\* rec: the tuple under construction).
Running == [data |-> data, sampled |-> sampled, lastRet |-> lastRet,
            trace |-> <<>>, ret |-> 0, rec |-> <<>>, oob |-> <<>>,
            err |-> FALSE, fault |-> FALSE]

\* Digital::read / Analog::read on position i: samples the line, applies the
\* inversion of the kind, stores the result in data and returns it.
InputRead_read(st, i, inverse_read, raw) ==
  LET val == Invert(kinds[i], raw, inverse_read)
  IN [st EXCEPT !.data[i] = val,
                !.sampled[i] = TRUE,
                !.lastRet[i] = val,
                !.ret = val,
                !.trace = Append(@, [pos |-> i, inv |-> inverse_read,
                                     raw |-> raw, ret |-> val])]

\* Mutant of read_cached: every wrapper answers with the first one's cache.
read_cached_first(d, i) == d[0]

\* InputRead::read_cached of position i.
read_cached(d, i) == d[i]

\* InputRead::operator Data of position i.
operator_Data(d, i) == d[i]

\* What the lines hand back to an operation that samples the positions ids
\* in turn: one raw value per sample, of the kind of the line sampled (0
\* where ids names no line).
RawsFor(ids) ==
  {r \in [1..Len(ids) -> AllRaw] :
     \A j \in 1..Len(ids) :
       r[j] \in (IF ids[j] \in Pos THEN RawVals(kinds[ids[j]]) ELSE {0})}

\* What the lines hand back to an operation that samples each line at most
\* once: one raw value per line.
LineLevels == {r \in [Pos -> AllRaw] : \A i \in Pos : r[i] \in RawVals(kinds[i])}

(***************************************************************************)
(* Construction.                                                           *)
(***************************************************************************)
\* Bus<T, N>(lines...): N positions of one kind T (DBus<N>, ABus<N>).
BusShapes == {[i \in 0..(n - 1) |-> k] : n \in 1..MaxWidth, k \in Kind}

\* VBus<T...>(lines...) / make_vbus: one declared kind per position; the
\* modelled buses alternate (Digital, Analog, Digital, ...).
VBusShapes ==
  {[i \in 0..(n - 1) |-> IF i % 2 = 0 THEN "Digital" ELSE "Analog"] :
     n \in 1..MaxWidth}

Init ==
  /\ cls \in {"Bus", "VBus"}
  /\ kinds \in (IF cls = "Bus" THEN BusShapes ELSE VBusShapes)
  /\ data \in {d \in [DOMAIN kinds -> UNION {Indeterminate(k) : k \in Kind}] :
                 \A i \in DOMAIN kinds : d[i] \in Indeterminate(kinds[i])}
  /\ sampled = [i \in DOMAIN kinds |-> FALSE]
  /\ lastRet = [i \in DOMAIN kinds |-> 0]
  /\ last = NoOp

\* The effect of a finished operation on the state.
Finish(st, op, ids, inverse_read) ==
  /\ data' = st.data
  /\ sampled' = st.sampled
  /\ lastRet' = st.lastRet
  /\ last' = [op |-> op, ids |-> ids, inv |-> inverse_read,
              trace |-> st.trace, rec |-> st.rec, oob |-> st.oob,
              err |-> st.err, fault |-> st.fault]
  /\ UNCHANGED <<cls, kinds>>

\* The program runs until an out-of-bounds access ends it.
Alive == ~last.fault

\* The operations that read the cache only.
CacheOnlyOps == {"get", "index"}

\* The caller's control cycle: a sampling operation is triggered at the
\* start of a cycle, that is after construction or after the previous cycle
\* has ended.
Trigger == Alive /\ last.op \in {"construct", "idle"}

\* The caller ends the cycle: no operation of the bus is called.
Caller_next_cycle ==
  /\ Alive /\ last.op \notin {"construct", "idle"}
  /\ last' = [NoOp EXCEPT !.op = "idle"]
  /\ UNCHANGED <<cls, kinds, data, sampled, lastRet>>

\* What an access outside the bus may do: go on, or end the program.
UB(ids) == IF \E j \in 1..Len(ids) : ids[j] \notin Pos
           THEN {"continue", "fault"} ELSE {"continue"}

(***************************************************************************)
(* Bus<T, N>.                                                              *)
(***************************************************************************)
\* Mutant of the static_assert of Bus::get<I>: the bound is off by one.
Bus_get_static_assert_le(I) == I <= Width

\* static_assert(I < N, OUT_OF_BOUNDS_ERROR) of Bus::get<I>: a program that
\* names another I does not build.
Bus_get_static_assert(I) == I < Width

\* static_assert(I < N, OUT_OF_BOUNDS_ERROR) of Bus::read<I> and of
\* Bus::read<I, In, Index...>.
Bus_read_static_assert(I) == I < Width

\* Mutant of Bus::get<I>: the line is sampled again instead of the cache
\* being read.
Bus_get_resample(st, I) ==
  LET st1 == InputRead_read(st, I, FALSE, 0)
  IN [st1 EXCEPT !.rec = <<st1.ret>>]

\* Bus::get<I>(): list[I].read_cached(); list[I] with I >= N is outside the
\* array.
Bus_get_do(st, I) ==
  IF I >= Width THEN [st EXCEPT !.oob = Append(@, I)]
  ELSE [st EXCEPT !.rec = <<read_cached(st.data, I)>>]

Bus_get ==
  /\ cls = "Bus" /\ Alive
  /\ \E I \in 0..Width :
       /\ Bus_get_static_assert(I)
       /\ Finish(Bus_get_do(Running, I), "get", <<I>>, FALSE)

\* Bus::operator[](index): the bounds check has an empty body, so an index
\* >= N goes on to list[index], outside the array.  That read yields an
\* indeterminate value v or ends the program (ub).
Bus_index_do(st, index, v, ub) ==
  IF index >= Width
  THEN IF ub = "fault"
       THEN [st EXCEPT !.oob = Append(@, index), !.fault = TRUE]
       ELSE [st EXCEPT !.oob = Append(@, index), !.rec = <<v>>]
  ELSE [st EXCEPT !.rec = <<read_cached(st.data, index)>>]

Bus_index ==
  /\ cls = "Bus" /\ Alive
  /\ \E index \in 0..Width, v \in Indeterminate(kinds[0]) :
       \E ub \in UB(<<index>>) :
         Finish(Bus_index_do(Running, index, v, ub), "index", <<index>>, FALSE)

\* Bus::read_all: range-for over list, first to last.
RECURSIVE Bus_read_all_from(_, _, _, _)
Bus_read_all_from(st, i, inverse_read, level) ==
  IF i >= Width THEN st
  ELSE Bus_read_all_from(InputRead_read(st, i, inverse_read, level[i]),
                         i + 1, inverse_read, level)

\* Mutant of Bus::read_all: the flag is not handed on to the lines.
Bus_read_all_noflag(st, inverse_read, level) ==
  Bus_read_all_from(st, 0, FALSE, level)

\* Mutant of Bus::read_all: the loop starts one position late.
Bus_read_all_late(st, inverse_read, level) ==
  Bus_read_all_from(st, 1, inverse_read, level)

Bus_read_all_do(st, inverse_read, level) ==
  Bus_read_all_from(st, 0, inverse_read, level)

Bus_read_all ==
  /\ cls = "Bus" /\ Trigger
  /\ \E inverse_read \in BOOLEAN, level \in LineLevels :
       Finish(Bus_read_all_do(Running, inverse_read, level),
              "read_all", <<>>, inverse_read)

\* Mutant of Bus::read<I>: the neighbour of position I is sampled.
Bus_read_neighbour(st, I, inverse_read, raw) ==
  InputRead_read(st, (I + 1) % Width, inverse_read, raw)

\* Bus::read<I>(inverse_read): static_assert(I < N), then one sample.
Bus_read_do(st, I, inverse_read, raw) ==
  InputRead_read(st, I, inverse_read, raw)

Bus_read ==
  /\ cls = "Bus" /\ Trigger
  /\ \E I \in 0..Width, inverse_read \in BOOLEAN :
       /\ Bus_read_static_assert(I)
       /\ \E raws \in RawsFor(<<I>>) :
         Finish(Bus_read_do(Running, I, inverse_read, raws[1]),
                "read", <<I>>, inverse_read)

\* Bus::read<I, In, Index...>(inverse_read): samples I with the flag, then
\* calls read<In, Index...>() with no argument, so that the rest of the
\* list is read with the default inverse_read = false.
RECURSIVE Bus_read_pack_do(_, _, _, _)
Bus_read_pack_do(st, ids, inverse_read, raws) ==
  IF Len(ids) = 1
  THEN Bus_read_do(st, ids[1], inverse_read, raws[1])
  ELSE Bus_read_pack_do(InputRead_read(st, ids[1], inverse_read, raws[1]),
                        Tail(ids), FALSE, Tail(raws))

Bus_read_pack ==
  /\ cls = "Bus" /\ Trigger
  /\ \E ids \in Lists(0..Width, 2, MaxList), inverse_read \in BOOLEAN :
       /\ \A j \in 1..Len(ids) : Bus_read_static_assert(ids[j])
       /\ \E raws \in RawsFor(ids) :
            Finish(Bus_read_pack_do(Running, ids, inverse_read, raws),
                   "read_pack", ids, inverse_read)

\* Bus::read(ids, inverse_read): for each id in list order, the bounds check
\* with an empty body, then list[id].read(inverse_read).  An id >= N is an
\* access outside the array: it goes on without touching the bus, or ends
\* the program (ub).
RECURSIVE Bus_read_list_do(_, _, _, _, _)

\* Mutant of Bus::read(ids, inverse_read): an id already sampled by this
\* call is skipped.
Bus_read_list_once(st, ids, inverse_read, raws, ub) ==
  IF ids = <<>> THEN st
  ELSE IF \E j \in 1..Len(st.trace) : st.trace[j].pos = ids[1]
  THEN Bus_read_list_do(st, Tail(ids), inverse_read, Tail(raws), ub)
  ELSE IF ids[1] >= Width
  THEN [st EXCEPT !.oob = Append(@, ids[1])]
  ELSE Bus_read_list_do(InputRead_read(st, ids[1], inverse_read, raws[1]),
                        Tail(ids), inverse_read, Tail(raws), ub)

Bus_read_list_do(st, ids, inverse_read, raws, ub) ==
  IF ids = <<>> THEN st
  ELSE IF ids[1] >= Width
  THEN IF ub = "fault"
       THEN [st EXCEPT !.oob = Append(@, ids[1]), !.fault = TRUE]
       ELSE Bus_read_list_do([st EXCEPT !.oob = Append(@, ids[1])],
                             Tail(ids), inverse_read, Tail(raws), ub)
  ELSE Bus_read_list_do(InputRead_read(st, ids[1], inverse_read, raws[1]),
                        Tail(ids), inverse_read, Tail(raws), ub)

Bus_read_list ==
  /\ cls = "Bus" /\ Trigger
  /\ \E ids \in Lists(0..Width, 0, MaxList), inverse_read \in BOOLEAN :
       \E raws \in RawsFor(ids), ub \in UB(ids) :
         Finish(Bus_read_list_do(Running, ids, inverse_read, raws, ub),
                "read_list", ids, inverse_read)

(***************************************************************************)
(* VBus<T...>.                                                             *)
(***************************************************************************)
\* data_bus = std::tuple<assoc_data_type_t<T>...>: the kind of every field.
data_bus == [j \in 1..Width |-> kinds[j - 1]]

\* bound_data_bus<Ids...>: field j has the value type of position Ids[j].
bound_data_bus(ids) == [j \in 1..Len(ids) |-> kinds[ids[j]]]

\* A default-constructed tuple with the given field kinds.
DefaultTuple(fields) == [j \in 1..Len(fields) |-> ValueInit(fields[j])]

\* std::get<f>(data) = val, val of the value type of position i (f 0-based).
SetField(st, fields, f, i) ==
  [st EXCEPT !.rec[f + 1] = Convert(st.ret, kinds[i], fields[f + 1])]

\* Mutant of VBus::get<I>: the line is sampled again instead of the cache
\* being read.
VBus_get_resample(st, I) ==
  LET st1 == InputRead_read(st, I, FALSE, 0)
  IN [st1 EXCEPT !.rec = <<st1.ret>>]

\* VBus::get<I>().
VBus_get_do(st, I) == [st EXCEPT !.rec = <<read_cached(st.data, I)>>]

VBus_get ==
  /\ cls = "VBus" /\ Alive
  /\ \E I \in Pos : Finish(VBus_get_do(Running, I), "get", <<I>>, FALSE)

\* VBus::read<I>(inverse_read): one sample, whose value is returned.
VBus_read_do(st, I, inverse_read, raw) ==
  InputRead_read(st, I, inverse_read, raw)

VBus_read ==
  /\ cls = "VBus" /\ Trigger
  /\ \E I \in Pos, inverse_read \in BOOLEAN :
       \E raws \in RawsFor(<<I>>) :
         LET st == VBus_read_do(Running, I, inverse_read, raws[1])
         IN Finish([st EXCEPT !.rec = <<st.ret>>], "read", <<I>>, inverse_read)

\* VBus::read_iter<DBus, I>: the last listed position goes to field 0.
\* VBus::read_iter<DBus, I, In, Index...>: position I is sampled and stored
\* in field sizeof...(Index) + 1, then the rest of the list follows.
RECURSIVE read_iter(_, _, _, _, _)

\* Mutant of VBus::read_iter: the rest of the list is read before position
\* I is sampled.
read_iter_rest_first(st, fields, ids, inverse_read, raws) ==
  IF Len(ids) = 1
  THEN SetField(VBus_read_do(st, ids[1], inverse_read, raws[1]),
                fields, 0, ids[1])
  ELSE SetField(
         InputRead_read(
           read_iter(st, fields, Tail(ids), inverse_read, Tail(raws)),
           ids[1], inverse_read, raws[1]),
         fields, (Len(ids) - 2) + 1, ids[1])

read_iter(st, fields, ids, inverse_read, raws) ==
  IF Len(ids) = 1
  THEN SetField(VBus_read_do(st, ids[1], inverse_read, raws[1]),
                fields, 0, ids[1])
  ELSE read_iter(
         SetField(InputRead_read(st, ids[1], inverse_read, raws[1]),
                  fields, (Len(ids) - 2) + 1, ids[1]),
         fields, Tail(ids), inverse_read, Tail(raws))

\* VBus::read<I, In, Index...>(inverse_read).
VBus_read_pack_do(st, ids, inverse_read, raws) ==
  read_iter([st EXCEPT !.rec = DefaultTuple(bound_data_bus(ids))],
            bound_data_bus(ids), ids, inverse_read, raws)

VBus_read_pack ==
  /\ cls = "VBus" /\ Trigger
  /\ \E ids \in Lists(Pos, 2, MaxList), inverse_read \in BOOLEAN :
       \E raws \in RawsFor(ids) :
         Finish(VBus_read_pack_do(Running, ids, inverse_read, raws),
                "read_pack", ids, inverse_read)

\* void_if_nil<N> is a type when N == 0, void_if_non_nil<N> when N != 0:
\* which overload of read_all_iter<I> exists is decided by I - 1u.
void_if_nil(n) == n = 0
void_if_non_nil(n) == n # 0

\* VBus::read_all_iter<I>: with I - 1u == 0 it samples position 0 and stops;
\* otherwise it samples position I and goes on with I - 1u.
RECURSIVE read_all_iter(_, _, _, _)
read_all_iter(st, I, inverse_read, level) ==
  IF void_if_nil(SizeSub1(I))
  THEN SetField(VBus_read_do(st, 0, inverse_read, level[0]), data_bus, 0, 0)
  ELSE read_all_iter(
         SetField(VBus_read_do(st, I, inverse_read, level[I]), data_bus, I, I),
         SizeSub1(I), inverse_read, level)

\* Whether read_all_iter<I> can be instantiated: std::get<I>(list) needs
\* I < sizeof...(T) in every instance the recursion reaches.
RECURSIVE read_all_iter_builds(_)
read_all_iter_builds(I) ==
  IF void_if_nil(SizeSub1(I)) THEN TRUE
  ELSE I \in Pos /\ read_all_iter_builds(SizeSub1(I))

\* VBus::read_all(inverse_read).
VBus_read_all_do(st, inverse_read, level) ==
  read_all_iter([st EXCEPT !.rec = DefaultTuple(data_bus)],
                Width - 1, inverse_read, level)

VBus_read_all ==
  /\ cls = "VBus" /\ Trigger
  /\ read_all_iter_builds(Width - 1)
  /\ \E inverse_read \in BOOLEAN, level \in LineLevels :
       Finish(VBus_read_all_do(Running, inverse_read, level),
              "read_all", <<>>, inverse_read)

\* std::tie(dargs...) = tuple: slot j takes field j, converted to the type
\* of the slot.
Tie(slots, fields, tuple) ==
  [j \in 1..Len(slots) |-> Convert(tuple[j], fields[j], slots[j])]

\* Mutant of VBus::read_all<InverseRead>(dargs...): the template argument is
\* not handed on.
VBus_read_all_out_noflag(st, InverseRead, slots, level) ==
  LET st1 == VBus_read_all_do(st, FALSE, level)
  IN [st1 EXCEPT !.rec = Tie(slots, data_bus, st1.rec)]

\* VBus::read_all<InverseRead>(dargs...):
\* std::tie(dargs...) = read_all(InverseRead).  rec models the slots after
\* the call.
VBus_read_all_out_do(st, InverseRead, slots, level) ==
  LET st1 == VBus_read_all_do(st, InverseRead, level)
  IN [st1 EXCEPT !.rec = Tie(slots, data_bus, st1.rec)]

\* The caller supplies one slot per position, of the value type of the
\* position.
VBus_read_all_out ==
  /\ cls = "VBus" /\ Trigger
  /\ read_all_iter_builds(Width - 1)
  /\ \E InverseRead \in BOOLEAN, level \in LineLevels :
       Finish(VBus_read_all_out_do(Running, InverseRead, data_bus, level),
              "read_all_out", <<>>, InverseRead)

(***************************************************************************)
(* The program.                                                            *)
(***************************************************************************)
Next ==
  \/ Bus_get
  \/ Bus_index
  \/ Bus_read_all
  \/ Bus_read
  \/ Bus_read_pack
  \/ Bus_read_list
  \/ VBus_get
  \/ VBus_read
  \/ VBus_read_pack
  \/ VBus_read_all
  \/ VBus_read_all_out
  \/ Caller_next_cycle

Spec == Init /\ [][Next]_vars

(***************************************************************************)
(* Properties.                                                             *)
(***************************************************************************)
Range(seq) == {seq[j] : j \in 1..Len(seq)}

\* The samples of position i in the trace of the last operation.
SamplesOf(i) == {j \in 1..Len(last.trace) : last.trace[j].pos = i}

\* The latest sample of position i in the trace of the last operation.
LatestOf(i) == CHOOSE j \in SamplesOf(i) : \A k \in SamplesOf(i) : k <= j

SelectiveOps == {"read", "read_pack", "read_list"}

\* C1: cache coherence.  In either bus a cache-only read of a position that
\* has been sampled returns the value returned by the latest sample of that
\* position, whatever was sampled or read in between.
C1_CacheCoherence ==
  /\ \A i \in Pos :
       sampled[i] => /\ read_cached(data, i) = lastRet[i]
                     /\ operator_Data(data, i) = lastRet[i]
  /\ (last.op \in CacheOnlyOps /\ last.oob = <<>> /\ sampled[last.ids[1]])
       => last.rec = <<lastRet[last.ids[1]]>>

\* C1 witness: a cache-only read has returned the non-zero value of a
\* position sampled before it.
C1_Witness ==
  /\ last.op \in CacheOnlyOps /\ last.oob = <<>>
  /\ sampled[last.ids[1]]
  /\ last.rec # <<0>>
  /\ \E i \in Pos : sampled[i] /\ data[i] = 0

\* C2 as claimed: heterogeneous read_all samples every position exactly
\* once, so that afterwards every position is Sampled and its cache holds
\* the sample taken during the call.
C2_ReadAllSamplesEveryPosition ==
  (cls = "VBus" /\ last.op = "read_all") =>
    \A i \in Pos :
      /\ Cardinality(SamplesOf(i)) = 1
      /\ sampled[i]
      /\ \A j \in SamplesOf(i) : data[i] = last.trace[j].ret

\* C3 as claimed: field i of the record heterogeneous read_all returns is
\* the value sampled from line i during the call, and is what get<i>()
\* returns right after it.
C3_ReadAllRecord ==
  (cls = "VBus" /\ last.op = "read_all") =>
    \A i \in Pos :
      /\ \E j \in SamplesOf(i) : last.rec[i + 1] = last.trace[j].ret
      /\ last.rec[i + 1] = read_cached(data, i)

\* C4 as claimed: field j of the record a heterogeneous multi-position read
\* returns is the value sampled from the j-th listed position.
C4_ReadPackRecord ==
  (cls = "VBus" /\ last.op = "read_pack") =>
    \A j \in 1..Len(last.ids) :
      /\ last.trace[j].pos = last.ids[j]
      /\ last.rec[j] = last.trace[j].ret

\* C5 as claimed: the homogeneous compile-time multi-position read samples
\* every listed position with the flag the caller passed, so that with
\* inverted = true every listed position of a binary bus caches the flipped
\* raw sample.
C5_ReadPackFlag ==
  (cls = "Bus" /\ last.op = "read_pack") =>
    \A j \in 1..Len(last.ids) :
      /\ last.trace[j].inv = last.inv
      /\ (kinds[0] = "Digital" /\ last.inv) =>
           data[last.ids[j]] = 1 - last.trace[LatestOf(last.ids[j])].raw

\* C6 as claimed: a position never sampled since construction returns the
\* zero of its value type from every cache-only read.
C6_UnsampledIsZero ==
  /\ \A i \in Pos :
       ~sampled[i] => /\ read_cached(data, i) = ValueInit(kinds[i])
                      /\ operator_Data(data, i) = ValueInit(kinds[i])
  /\ (last.op \in CacheOnlyOps /\ last.oob = <<>> /\ ~sampled[last.ids[1]])
       => last.rec = <<ValueInit(kinds[last.ids[1]])>>

\* C7 as claimed: operator[] with index >= N yields the explicit error on
\* every such call and reads no slot outside positions 0..N-1.
C7_IndexOutOfRangeIsError ==
  (cls = "Bus" /\ last.op = "index" /\ last.ids[1] >= Width) =>
    last.err /\ last.oob = <<>>

\* C8: homogeneous read_all samples positions 0, 1, ..., N-1 in ascending
\* order, each exactly once, and after read_all(false) the cache of every
\* position holds the raw sample its line produced during the call.
C8_ReadAllAscending ==
  (cls = "Bus" /\ last.op = "read_all") =>
    /\ Len(last.trace) = Width
    /\ \A j \in 1..Len(last.trace) :
         /\ last.trace[j].pos = j - 1
         /\ ~last.inv => read_cached(data, j - 1) = last.trace[j].raw

\* C8 witness: read_all(false) on a 3-wide binary bus whose lines produced
\* 1, 0, 1.
C8_Witness ==
  /\ cls = "Bus" /\ last.op = "read_all" /\ ~last.inv
  /\ Width = 3 /\ kinds[0] = "Digital"
  /\ [j \in 1..3 |-> last.trace[j].raw] = <<1, 0, 1>>

\* C9: the homogeneous runtime list read with all entries < N samples the
\* lines in exactly the order of the list, one sample per entry; a position
\* listed twice is sampled twice and its cache ends with the later sample.
C9_ReadListOrder ==
  (cls = "Bus" /\ last.op = "read_list" /\ \A i \in Range(last.ids) : i < Width)
    =>
    /\ [j \in 1..Len(last.trace) |-> last.trace[j].pos] = last.ids
    /\ \A i \in Range(last.ids) :
         read_cached(data, i) = last.trace[LatestOf(i)].ret

\* C9 witness: read({1, 1}, false) on a binary bus has sampled position 1
\* twice, the line producing 1 and then 0, and the cache holds 0.
C9_Witness ==
  /\ cls = "Bus" /\ last.op = "read_list" /\ ~last.inv
  /\ kinds[0] = "Digital"
  /\ last.ids = <<1, 1>>
  /\ [j \in 1..Len(last.trace) |-> last.trace[j].raw] = <<1, 0>>
  /\ data[1] = 0

\* C10: a selective read (single position, compile-time list or runtime
\* list of positions of the bus, on either bus) samples the listed positions
\* only: every other position keeps its cached value and its
\* Sampled/Unsampled state, and its line is not sampled.
C10_SelectiveReadFrame ==
  [][(last'.op \in SelectiveOps /\ last' # last /\ Range(last'.ids) \subseteq Pos)
       => \A i \in Pos \ Range(last'.ids) :
            /\ data'[i] = data[i]
            /\ sampled'[i] = sampled[i]
            /\ \A j \in 1..Len(last'.trace) : last'.trace[j].pos # i]_vars

\* C10 witness: a multi-position read has left alone a position that was
\* sampled earlier and caches a non-zero value.
C10_Witness ==
  /\ last.op = "read_pack"
  /\ \E i \in Pos \ Range(last.ids) : sampled[i] /\ data[i] # 0
  /\ \E i \in Pos \ Range(last.ids) : ~sampled[i]

\* C11: on a homogeneous binary bus read_all(true) leaves at every position
\* the flipped raw sample 1 - raw, and read_all(false) the raw sample itself.
C11_ReadAllInversion ==
  (cls = "Bus" /\ kinds[0] = "Digital" /\ last.op = "read_all") =>
    /\ Len(last.trace) = Width
    /\ \A j \in 1..Len(last.trace) :
         /\ last.trace[j].inv = last.inv
         /\ read_cached(data, last.trace[j].pos) =
              (IF last.inv THEN 1 - last.trace[j].raw ELSE last.trace[j].raw)

\* C11 witness: read_all(true) on a 3-wide binary bus whose lines produced
\* 1, 0, 1 has left 0, 1, 0 in the cache.
C11_Witness ==
  /\ cls = "Bus" /\ kinds[0] = "Digital" /\ last.op = "read_all" /\ last.inv
  /\ Width = 3
  /\ [j \in 1..3 |-> last.trace[j].raw] = <<1, 0, 1>>
  /\ [j \in 1..3 |-> data[j - 1]] = <<0, 1, 0>>

SamplingOps ==
  {"read", "read_pack", "read_list", "read_all", "read_all_out"}

\* C12: the cache-only reads (read_cached, conversion, get<I>, operator[]
\* with a valid index) take no hardware sample and leave every cached value
\* unchanged; a line is sampled and a cache changes only inside a sampling
\* operation.
C12_CacheOnlyFrame ==
  [][/\ (last'.op \in CacheOnlyOps /\ last'.oob = <<>>)
          => /\ data' = data /\ sampled' = sampled /\ lastRet' = lastRet
             /\ last'.trace = <<>>
             /\ last'.rec = <<read_cached(data, last'.ids[1])>>
             /\ last'.rec = <<operator_Data(data, last'.ids[1])>>
     /\ (data' # data \/ sampled' # sampled \/ lastRet' # lastRet
           \/ last'.trace # <<>>)
          => last'.op \in SamplingOps]_vars

\* C12 witness: a cache-only read has taken place on a bus with a sampled
\* and an unsampled position, and took no sample.
C12_Witness ==
  /\ last.op \in CacheOnlyOps /\ last.oob = <<>> /\ last.trace = <<>>
  /\ \E i \in Pos : sampled[i] /\ data[i] # 0
  /\ \E i \in Pos : ~sampled[i] /\ data[i] # 0

\* C13: the output-slot overload of heterogeneous read_all is equivalent to
\* the record-returning one: from the same state and line values it takes
\* the same samples, leaves the same cache, and slot i receives the value of
\* field i of the record.
C13_ReadAllOutEquivalent ==
  [][(last'.op = "read_all_out" /\ last' # last) =>
       \E level \in LineLevels :
         LET st == VBus_read_all_do(Running, last'.inv, level)
         IN /\ st.trace = last'.trace
            /\ st.data = data'
            /\ st.sampled = sampled'
            /\ st.rec = last'.rec]_vars

\* C13 witness: read_all<true>(out0, out1, out2) on a 3-wide bus has written
\* non-zero values into the slots of positions 0 and 2.
C13_Witness ==
  /\ cls = "VBus" /\ last.op = "read_all_out" /\ last.inv
  /\ Width = 3
  /\ last.rec[1] # 0 /\ last.rec[3] # 0

CompileTimeOps == {"get", "read", "read_pack"}

\* C14: a compile-time-indexed operation of a homogeneous bus (get<I>,
\* read<I>, every position of read<I, I2, ...>) with an index >= N does not
\* build, so none ever reads or samples outside positions 0..N-1.
C14_CompileTimeIndexInRange ==
  (cls = "Bus" /\ last.op \in CompileTimeOps) =>
    /\ Range(last.ids) \subseteq Pos
    /\ last.oob = <<>>
    /\ \A j \in 1..Len(last.trace) : last.trace[j].pos \in Pos

\* C14 witness: compile-time-indexed operations have acted on the last
\* position N - 1 of a 3-wide bus, the largest index that builds.
C14_Witness ==
  /\ cls = "Bus" /\ last.op = "get" /\ Width = 3
  /\ last.ids = <<Width - 1>>
  /\ sampled[Width - 1]
  /\ last.rec = <<data[Width - 1]>>

\* C15 as claimed: the homogeneous runtime list read never touches a
\* position >= N: a list with such an entry yields the explicit error
\* instead of proceeding with the entry.
C15_ReadListOutOfRangeIsError ==
  (cls = "Bus" /\ last.op = "read_list") =>
    /\ last.oob = <<>>
    /\ \A j \in 1..Len(last.trace) : last.trace[j].pos \in Pos
    /\ (\E i \in Range(last.ids) : i >= Width) => last.err

\* C16: the heterogeneous multi-position read touches the lines in the
\* listed order, one sample per listed position, each with the caller's
\* flag.
C16_ReadPackOrder ==
  (cls = "VBus" /\ last.op = "read_pack") =>
    /\ [j \in 1..Len(last.trace) |-> last.trace[j].pos] = last.ids
    /\ \A j \in 1..Len(last.trace) : last.trace[j].inv = last.inv

\* C16 witness: read<2, 0>(true) has sampled position 2, then position 0,
\* both inverted.
C16_Witness ==
  /\ cls = "VBus" /\ last.op = "read_pack" /\ last.inv
  /\ last.ids = <<2, 0>>
  /\ [j \in 1..Len(last.trace) |-> last.trace[j].ret] = <<0, 1>>

\* C17: every position starts Unsampled, becomes Sampled only by a sample
\* of that very position, and once Sampled stays Sampled.
C17_SampledStateMachine ==
  /\ \A i \in Pos : ~sampled[i]
  /\ [][\A i \in Pos :
          /\ sampled[i] => sampled'[i]
          /\ (~sampled[i] /\ sampled'[i]) =>
               /\ last'.op \in SamplingOps
               /\ \E j \in 1..Len(last'.trace) : last'.trace[j].pos = i]_vars

\* C17 witness: a single-position read has sampled one position while
\* another stayed Sampled and a third stayed Unsampled.
C17_Witness ==
  /\ last.op = "read"
  /\ \E i \in Pos \ Range(last.ids) : sampled[i]
  /\ \E i \in Pos \ Range(last.ids) : ~sampled[i]

\* The list 0, 1, ..., N-1.
FullList == [j \in 1..Width |-> j - 1]

\* C18 as claimed: on a homogeneous bus read<0, ..., N-1>(inverted),
\* read({0, ..., N-1}, inverted) and read_all(inverted) are equivalent: with
\* the same line values they take the same samples (positions, order, flag)
\* and leave the same cache.
C18_FullReadsEquivalent ==
  (/\ cls = "Bus" /\ last.op \in {"read_pack", "read_list"}
   /\ last.ids = FullList /\ Len(last.trace) = Width) =>
    LET level == [i \in Pos |-> last.trace[i + 1].raw]
        st == Bus_read_all_do(Running, last.inv, level)
    IN /\ st.trace = last.trace
       /\ st.data = data

\* C19 as claimed: after a heterogeneous multi-position read of pairwise
\* distinct positions field j of the record equals get<Pj>().
C19_ReadPackRecordIsCache ==
  (/\ cls = "VBus" /\ last.op = "read_pack"
   /\ Cardinality(Range(last.ids)) = Len(last.ids)) =>
    \A j \in 1..Len(last.ids) :
      last.rec[j] = read_cached(data, last.ids[j])

=============================================================================
